---- MODULE Spec2Model ----
(***************************************************************************)
(* IP-Risk Sentiment Analyzer (app.py): the "Analyze News" pipeline.       *)
(*                                                                         *)
(* fetch_gdelt_data -> comprehension over the articles (analyze_article,   *)
(* score and company filters) -> groupby/idxmax -> sort_values ->          *)
(* st.session_state.results_df.                                            *)
(*                                                                         *)
(* Representation.                                                         *)
(*  - A Python str that the code inspects (company names, sentences, the   *)
(*    'seendate' field) is a sequence of one-character strings, so that    *)
(*    len(), `in`, .lower(), slicing and the ordering of str are computed. *)
(*    'url' is opaque to the code and is a plain string.                   *)
(*  - A float in [0, 1] is a fixed-point integer: the classifier's scores  *)
(*    and the keyword score count 1/Scale, the weights count 1/Scale, and  *)
(*    a risk score counts 1/(Scale * Scale).                               *)
(*  - spaCy and FinBERT are external: an article carries what nlp() gives  *)
(*    for its content (sents, ents) and what sentiment_analyzer() gives    *)
(*    for its risk text (sentiment). 'title' and 'socialimage' reach the   *)
(*    handler only through len(content) and through those two models, so   *)
(*    the article carries their lengths.                                   *)
(*  - st.cache_data on fetch_gdelt_data is transparent to the handler: a   *)
(*    hit returns the list a previous call returned. It is not modelled.   *)
(***************************************************************************)
EXTENDS Integers, Sequences, FiniteSets, TLC

(***************************************************************************)
(* Bounds of the model.                                                    *)
(***************************************************************************)
\* Longest batch of articles a response carries.
MaxBatch == 2
\* Largest number of risky sentences of an article of the sweep family.
MaxRisky == 6

(***************************************************************************)
(* Python str operations.                                                  *)
(***************************************************************************)
\* The characters in use, in code point order.
Alphabet ==
    <<" ", "0", "1", "2", "3", "4", "5", "6", "7", "8", "9",
      "A", "B", "C", "D", "E", "F", "G", "H", "I", "J", "K", "L", "M",
      "N", "O", "P", "Q", "R", "S", "T", "U", "V", "W", "X", "Y", "Z",
      "a", "b", "c", "d", "e", "f", "g", "h", "i", "j", "k", "l", "m",
      "n", "o", "p", "q", "r", "s", "t", "u", "v", "w", "x", "y", "z">>

\* ord(c), as the position in Alphabet.
OrdTable == [c \in {Alphabet[i] : i \in 1..Len(Alphabet)} |->
                CHOOSE i \in 1..Len(Alphabet) : Alphabet[i] = c]

Ord(c) == OrdTable[c]

IsUpper(c) == Ord(c) >= Ord("A") /\ Ord(c) <= Ord("Z")

\* str.lower() on one character, then on a str.
LowerTable == [c \in {Alphabet[i] : i \in 1..Len(Alphabet)} |->
                  IF IsUpper(c) THEN Alphabet[Ord(c) - Ord("A") + Ord("a")] ELSE c]

LowerChar(c) == LowerTable[c]

Lower(s) == [i \in 1..Len(s) |-> LowerChar(s[i])]

\* sub in s
Contains(sub, s) ==
    \E i \in 0..(Len(s) - Len(sub)) : \A j \in 1..Len(sub) : s[i + j] = sub[j]

\* a < b on str: lexicographic by code point.
StrLess(a, b) ==
    \E k \in 1..Len(b) :
        /\ \A j \in 1..(k - 1) : j <= Len(a) /\ a[j] = b[j]
        /\ (k > Len(a) \/ (k <= Len(a) /\ Ord(a[k]) < Ord(b[k])))

\* s[:n]
Prefix(s, n) == SubSeq(s, 1, IF Len(s) < n THEN Len(s) ELSE n)

RECURSIVE Join(_, _)
\* sep.join(parts)
Join(sep, parts) ==
    IF parts = <<>> THEN <<>>
    ELSE IF Len(parts) = 1 THEN parts[1]
    ELSE parts[1] \o sep \o Join(sep, Tail(parts))

Range(s) == {s[i] : i \in 1..Len(s)}

Min(a, b) == IF a < b THEN a ELSE b

(***************************************************************************)
(* Configuration.                                                          *)
(***************************************************************************)
KEYWORDS ==
    << <<"i", "n", "f", "r", "i", "n", "g", "e", "m", "e", "n", "t">>,
       <<"i", "n", "j", "u", "n", "c", "t", "i", "o", "n">>,
       <<"u", "s", "p", "t", "o">>,
       <<"o", "p", "p", "o", "s", "i", "t", "i", "o", "n">>,
       <<"i", "n", "v", "a", "l", "i", "d", "a", "t", "e", "d">>,
       <<"l", "a", "w", "s", "u", "i", "t">>,
       <<"l", "i", "t", "i", "g", "a", "t", "i", "o", "n">> >>

\* Fixed-point unit of a value in [0, 1].
Scale == 10

\* RISK_WEIGHTS, in 1/Scale.
RISK_WEIGHTS == [sentiment |-> 6, keywords |-> 4]

\* The literals of the results comprehension: len(content) > 100, and
\* analysis_result[2] > 0.1 as risk * TenthDen > Scale * Scale.
ContentMin == 100
TenthDen == 10
\* len(company) > 3
CompanyMin == 3
\* article['seendate'][:8]
DateLen == 8
\* len(risky_sentences) / 5.0
KeywordDen == 5

(***************************************************************************)
(* analyze_article.                                                        *)
(***************************************************************************)
\* A set as the list list(set(...)) makes of it. The iteration order of a
\* set of str is not fixed by the language: rev picks one of two orders.
RECURSIVE SetToList(_, _)
SetToList(S, rev) ==
    IF S = {} THEN <<>>
    ELSE LET lo == CHOOSE x \in S : \A y \in S \ {x} : StrLess(x, y)
         IN  IF rev THEN Append(SetToList(S \ {lo}, rev), lo)
                    ELSE <<lo>> \o SetToList(S \ {lo}, rev)

\* [ent.text for ent in doc.ents if ent.label_ == "ORG"], as a set
OrgTexts(ents) == {ents[i].text : i \in {j \in 1..Len(ents) : ents[j].label = "ORG"}}

\* any(keyword in sent.text.lower() for keyword in KEYWORDS)
IsRisky(sent) ==
    LET lowered == Lower(sent)
    IN  \E k \in 1..Len(KEYWORDS) : Contains(KEYWORDS[k], lowered)

RiskySentences(sents) == SelectSeq(sents, IsRisky)

\* next((item['score'] for item in sentiment_result if item['label'] == 'Negative'), 0)
NegativeScore(sentiment_result) ==
    LET hits == {i \in 1..Len(sentiment_result) : sentiment_result[i].label = "Negative"}
    IN  IF hits = {} THEN 0
        ELSE sentiment_result[CHOOSE i \in hits : \A j \in hits : i <= j].score

\* A faulty keyword score: no min(..., 1.0).
NormalizedKeywordScoreNoMin(n) == (n * Scale) \div KeywordDen

\* min(len(risky_sentences) / 5.0, 1.0), in 1/Scale
NormalizedKeywordScore(n) == Min((n * Scale) \div KeywordDen, Scale)

\* A faulty blend: the weights exchanged.
RiskScoreSwapped(negative_score, normalized_keyword_score) ==
    (RISK_WEIGHTS.keywords * negative_score)
        + (RISK_WEIGHTS.sentiment * normalized_keyword_score)

\* (w_s * negative_score) + (w_k * normalized_keyword_score), in 1/(Scale*Scale)
RiskScore(negative_score, normalized_keyword_score) ==
    (RISK_WEIGHTS.sentiment * negative_score)
        + (RISK_WEIGHTS.keywords * normalized_keyword_score)

\* A faulty analyze_article: no early return when nothing is risky.
analyze_article_no_return(article, rev) ==
    LET companies == SetToList(OrgTexts(article.ents), rev)
        risky_sentences == RiskySentences(article.sents)
    IN  [none |-> FALSE, called |-> TRUE, companies |-> companies,
         text |-> Join(<<" ">>, risky_sentences),
         risk |-> RiskScore(NegativeScore(article.sentiment),
                            NormalizedKeywordScore(Len(risky_sentences)))]

\* analyze_article(content): none marks the early return (None, None, 0);
\* called tells whether sentiment_analyzer was run.
analyze_article(article, rev) ==
    LET companies == SetToList(OrgTexts(article.ents), rev)
        risky_sentences == RiskySentences(article.sents)
    IN  IF risky_sentences = <<>>
        THEN [none |-> TRUE, called |-> FALSE, companies |-> <<>>,
              text |-> <<>>, risk |-> 0]
        ELSE [none |-> FALSE, called |-> TRUE, companies |-> companies,
              text |-> Join(<<" ">>, risky_sentences),
              risk |-> RiskScore(NegativeScore(article.sentiment),
                                 NormalizedKeywordScore(Len(risky_sentences)))]

(***************************************************************************)
(* fetch_gdelt_data: one HTTP GET inside try/except.                       *)
(*                                                                         *)
(* A response is what the network does with that GET:                      *)
(*   net     "ok", or the exception requests.get raises                    *)
(*   status  the HTTP status of the response                               *)
(*   body    "articles"    a JSON object with an 'articles' array          *)
(*           "no_articles" a JSON object without that key                  *)
(*           "array"       well-formed JSON that is not an object          *)
(*           "invalid", "empty"   not JSON                                 *)
(*   articles  the array, when body = "articles"                           *)
(***************************************************************************)
\* The classes of requests.exceptions that derive from RequestException.
RequestExceptions ==
    {"RequestException", "HTTPError", "JSONDecodeError", "ConnectionError", "Timeout"}

\* isinstance(exc, cls) for the classes the except clauses name.
IsInstance(exc, cls) ==
    exc = cls \/ (cls = "RequestException" /\ exc \in RequestExceptions)

\* response.raise_for_status() raises for 4xx and 5xx.
RaisesForStatus(status) == status >= 400 /\ status < 600

\* The body of the try block: the exception it ends with, or its value.
TryBody(resp) ==
    IF resp.net # "ok" THEN [exc |-> resp.net, value |-> <<>>]
    ELSE IF RaisesForStatus(resp.status) THEN [exc |-> "HTTPError", value |-> <<>>]
    ELSE IF resp.body \in {"invalid", "empty"}
         THEN [exc |-> "JSONDecodeError", value |-> <<>>]
    ELSE IF resp.body = "array" THEN [exc |-> "AttributeError", value |-> <<>>]
    ELSE IF resp.body = "articles" THEN [exc |-> "none", value |-> resp.articles]
    ELSE [exc |-> "none", value |-> <<>>]

\* A faulty order of the clauses: the base class first.
ExceptClausesBaseFirst ==
    << [cls |-> "RequestException", msg |-> "network connection error"],
       [cls |-> "HTTPError", msg |-> "HTTP error"],
       [cls |-> "JSONDecodeError", msg |-> "failed to decode JSON"] >>

\* The except clauses in source order, each with the st.error it reports.
ExceptClauses ==
    << [cls |-> "HTTPError", msg |-> "HTTP error"],
       [cls |-> "JSONDecodeError", msg |-> "failed to decode JSON"],
       [cls |-> "RequestException", msg |-> "network connection error"] >>

\* raised: the exception that leaves the function; ret: the list returned;
\* errors: the st.error calls; requests: the HTTP requests issued.
fetch_gdelt_data(resp) ==
    LET t == TryBody(resp)
        matching == {k \in 1..Len(ExceptClauses) : IsInstance(t.exc, ExceptClauses[k].cls)}
    IN  IF t.exc = "none"
        THEN [raised |-> "none", ret |-> t.value, errors |-> <<>>, requests |-> 1]
        ELSE IF matching = {}
        THEN [raised |-> t.exc, ret |-> <<>>, errors |-> <<>>, requests |-> 1]
        ELSE [raised |-> "none", ret |-> <<>>,
              errors |-> <<ExceptClauses[CHOOSE k \in matching :
                                           \A j \in matching : k <= j].msg>>,
              requests |-> 1]

(***************************************************************************)
(* The results comprehension of the "Analyze News" handler.                *)
(***************************************************************************)
\* article.get(key, ''), for the str fields
GetSeendate(article) == IF "seendate" \in article.keys THEN article.seendate ELSE <<>>

\* len(seendate + " " + title + " " + socialimage)
ContentLen(article) ==
    Len(GetSeendate(article)) + 1
        + (IF "title" \in article.keys THEN article.title_len ELSE 0) + 1
        + (IF "socialimage" \in article.keys THEN article.image_len ELSE 0)

\* A faulty filter: the "LLC" test left out.
CompanyFilterNoLlc(company) ==
    Len(company) > CompanyMin /\ Contains(<<" ">>, company)

\* len(company) > 3 and " " in company and "LLC" not in company
CompanyFilter(company) ==
    /\ Len(company) > CompanyMin
    /\ Contains(<<" ">>, company)
    /\ ~Contains(<<"L", "L", "C">>, company)

\* analysis_result[2] > 0.1
AboveThreshold(risk) == risk * TenthDen > Scale * Scale

\* One article of the comprehension, after the articles before it gave acc.
ComprehensionStep(acc, article, i, rev) ==
    IF ContentLen(article) <= ContentMin THEN acc
    ELSE LET analysis_result == analyze_article(article, rev)
             scored == IF analysis_result.called THEN Append(acc.scored, i)
                       ELSE acc.scored
             kept == SelectSeq(analysis_result.companies, CompanyFilter)
         IN  IF ~AboveThreshold(analysis_result.risk) \/ kept = <<>>
             THEN [acc EXCEPT !.scored = scored]
             ELSE IF "url" \notin article.keys \/ "seendate" \notin article.keys
             THEN [acc EXCEPT !.scored = scored, !.raised = "KeyError"]
             ELSE [acc EXCEPT
                     !.scored = scored,
                     !.results = acc.results \o
                         [k \in 1..Len(kept) |->
                             [Company |-> kept[k],
                              Risk_Score |-> analysis_result.risk,
                              Key_Mentions |-> analysis_result.text,
                              Source |-> article.url,
                              Date |-> Prefix(article.seendate, DateLen)]]]

RECURSIVE Comprehension(_, _)
\* The list `results`, the articles given to sentiment_analyzer (scored),
\* and the exception that ended the comprehension, if one did.
Comprehension(articles_, rev) ==
    IF articles_ = <<>>
    THEN [results |-> <<>>, scored |-> <<>>, raised |-> "none"]
    ELSE LET n == Len(articles_)
             acc == Comprehension(SubSeq(articles_, 1, n - 1), rev)
         IN  IF acc.raised # "none" THEN acc
             ELSE ComprehensionStep(acc, articles_[n], n, rev)

(***************************************************************************)
(* df.loc[df.groupby('Company')['Risk Score'].idxmax()]                    *)
(*   .sort_values(by="Risk Score", ascending=False).reset_index(drop=True) *)
(***************************************************************************)
RECURSIVE SortedKeys(_)
\* The group keys in groupby's order (sort=True): ascending.
SortedKeys(S) ==
    IF S = {} THEN <<>>
    ELSE LET lo == CHOOSE x \in S : \A y \in S \ {x} : StrLess(x, y)
         IN  <<lo>> \o SortedKeys(S \ {lo})

GroupRows(df, company) == {i \in 1..Len(df) : df[i].Company = company}

\* A faulty idxmax: the last row of the maximum.
IdxMaxLast(df, company) ==
    LET G == GroupRows(df, company)
    IN  CHOOSE i \in G : \A j \in G :
            df[j].Risk_Score < df[i].Risk_Score
                \/ (df[j].Risk_Score = df[i].Risk_Score /\ j <= i)

\* idxmax of one group: the label of the first row of the maximum.
IdxMax(df, company) ==
    LET G == GroupRows(df, company)
    IN  CHOOSE i \in G : \A j \in G :
            df[j].Risk_Score < df[i].Risk_Score
                \/ (df[j].Risk_Score = df[i].Risk_Score /\ i <= j)

\* A faulty reduction: the first row of each group, whatever its score.
GroupIdxFirst(df) ==
    LET keys == SortedKeys({df[i].Company : i \in 1..Len(df)})
    IN  [k \in 1..Len(keys) |->
            CHOOSE i \in GroupRows(df, keys[k]) :
                \A j \in GroupRows(df, keys[k]) : i <= j]

\* groupby('Company')['Risk Score'].idxmax(): one label per key, in key order.
GroupIdxMax(df) ==
    LET keys == SortedKeys({df[i].Company : i \in 1..Len(df)})
    IN  [k \in 1..Len(keys) |-> IdxMax(df, keys[k])]

\* df.loc[labels]
Loc(df, labels) == [k \in 1..Len(labels) |-> df[labels[k]]]

\* sort_values(by="Risk Score", ascending=False) with the default
\* kind='quicksort', which pandas documents as not stable: every
\* descending arrangement of the rows is an outcome.
SortValues(df) ==
    LET n == Len(df)
        perms == {p \in [1..n -> 1..n] : \A a, b \in 1..n : a # b => p[a] # p[b]}
    IN  {[k \in 1..n |-> df[p[k]]] : p \in
            {q \in perms : \A a, b \in 1..n :
                a < b => df[q[a]].Risk_Score >= df[q[b]].Risk_Score}}

\* A faulty store: no else branch, the old frame stays when results is empty.
StoreResultsNoElse(old, results_) ==
    IF results_ # <<>> THEN SortValues(Loc(results_, GroupIdxMax(results_)))
    ELSE {old}

\* if results: ... else: ...   The frames results_df may be set to.
StoreResults(old, results_) ==
    IF results_ # <<>> THEN SortValues(Loc(results_, GroupIdxMax(results_)))
    ELSE {<<>>}

(***************************************************************************)
(* Inputs: the articles a response may carry.                              *)
(***************************************************************************)
\* Sentences as doc.sents gives them.
SentLawsuit == <<"L", "a", "w", "s", "u", "i", "t", " ", "f", "i", "l", "e", "d">>
SentUspto == <<"U", "S", "P", "T", "O", " ", "r", "u", "l", "i", "n", "g">>
SentShares == <<"S", "h", "a", "r", "e", "s", " ", "r", "o", "s", "e">>
SentLawSuit == <<"l", "a", "w", " ", "s", "u", "i", "t">>

\* Entity texts as doc.ents gives them.
AcmeCorp == <<"A", "c", "m", "e", " ", "C", "o", "r", "p">>
BetaInc == <<"B", "e", "t", "a", " ", "I", "n", "c">>
Ibm == <<"I", "B", "M">>
Apple == <<"A", "p", "p", "l", "e">>
AcmeLlcCo == <<"A", "c", "m", "e", " ", "L", "L", "C", " ", "C", "o">>
AB == <<"A", " ", "B">>
JaneDoe == <<"J", "a", "n", "e", " ", "D", "o", "e">>

Org(text) == [text |-> text, label |-> "ORG"]
Person(text) == [text |-> text, label |-> "PERSON"]

\* 'seendate' values of the feed.
Seen1 == <<"2", "0", "2", "4", "0", "1", "0", "1", "T", "0", "0", "0", "0", "0", "0", "Z">>
Seen2 == <<"2", "0", "2", "4", "0", "2", "1", "5", "T", "1", "2", "0", "0", "0", "0", "Z">>
Seen3 == <<"2", "0", "2", "4", "0", "3", "0", "9", "T", "0", "8", "3", "0", "0", "0", "Z">>

\* What sentiment_analyzer(text)[0] returns: a score per label, in 1/Scale.
Tone(neg) ==
    << [label |-> "Positive", score |-> 0],
       [label |-> "Negative", score |-> neg],
       [label |-> "Neutral", score |-> Scale - neg] >>

\* A classifier result without the 'Negative' label.
ToneNoNegative ==
    << [label |-> "Positive", score |-> 3], [label |-> "Neutral", score |-> 7] >>

AllKeys == {"url", "title", "seendate", "socialimage"}

Article(keys, seendate, url, title_len, sents, ents, sentiment) ==
    [keys |-> keys, seendate |-> seendate, url |-> url,
     title_len |-> title_len, image_len |-> 0,
     sents |-> sents, ents |-> ents, sentiment |-> sentiment]

\* Two risky sentences and negativity 0.8 (risk 0.64); two companies pass
\* the filter, one of them extracted twice.
ArtAcmeBeta ==
    Article(AllKeys \ {"socialimage"}, Seen1, "u1", 120,
            <<SentLawsuit, SentShares, SentUspto>>,
            <<Org(AcmeCorp), Org(BetaInc), Person(JaneDoe), Org(AcmeCorp)>>, Tone(8))

\* One risky sentence and negativity 0.5 (risk 0.38).
ArtAcmeLow ==
    Article(AllKeys \ {"socialimage"}, Seen2, "u2", 120,
            <<SentLawsuit>>, <<Org(AcmeCorp)>>, Tone(5))

\* Risk 0.64 again, from other sentences and another source.
ArtAcmeTie ==
    Article(AllKeys \ {"socialimage"}, Seen3, "u3", 120,
            <<SentUspto, SentLawsuit>>, <<Org(AcmeCorp), Org(Ibm)>>, Tone(8))

\* No risky sentence, a company that passes the filter, a negative tone.
ArtNoRisk ==
    Article(AllKeys \ {"socialimage"}, Seen1, "u4", 120,
            <<SentShares, SentLawSuit>>, <<Org(AcmeCorp)>>, Tone(9))

\* Six risky sentences and negativity 1.0; no organization passes the filter.
ArtNoise ==
    Article(AllKeys \ {"socialimage"}, Seen1, "u5", 120,
            <<SentLawsuit, SentUspto, SentLawsuit, SentUspto, SentLawsuit, SentUspto>>,
            <<Org(Ibm), Org(Apple), Org(AcmeLlcCo), Org(AB)>>, Tone(Scale))

\* No 'url' key.
ArtNoUrl ==
    Article({"title", "seendate"}, Seen2, "", 120,
            <<SentLawsuit>>, <<Org(BetaInc)>>, Tone(8))

\* No 'seendate' key.
ArtNoSeendate ==
    Article({"title", "url"}, <<>>, "u6", 120,
            <<SentUspto>>, <<Org(BetaInc)>>, Tone(8))

\* No 'url' key and no risky sentence.
ArtNoUrlNoRisk ==
    Article({"title", "seendate"}, Seen2, "", 120,
            <<SentShares>>, <<Org(BetaInc)>>, Tone(8))

\* A content of 58 characters.
ArtShort ==
    Article(AllKeys \ {"socialimage"}, Seen1, "u7", 40,
            <<SentLawsuit>>, <<Org(AcmeCorp)>>, Tone(9))

\* One risky sentence and negativity 0 (risk 0.08).
ArtWeak ==
    Article(AllKeys \ {"socialimage"}, Seen1, "u8", 120,
            <<SentLawsuit>>, <<Org(AcmeCorp)>>, Tone(0))

\* Two risky sentences, no 'Negative' label (risk 0.16).
ArtNoLabel ==
    Article(AllKeys \ {"socialimage"}, Seen3, "u9", 120,
            <<SentLawsuit, SentUspto>>, <<Org(BetaInc)>>, ToneNoNegative)

Catalogue ==
    {ArtAcmeBeta, ArtAcmeLow, ArtAcmeTie, ArtNoRisk, ArtNoise, ArtNoUrl,
     ArtNoSeendate, ArtNoUrlNoRisk, ArtShort, ArtWeak, ArtNoLabel}

\* The articles of the runs of a session that goes on after its first run.
SessionCatalogue == {ArtAcmeBeta, ArtAcmeLow, ArtNoRisk}

\* The sweep family: n risky sentences (and one that is not), every
\* classifier result.
SweepArticle(n, sentiment) ==
    Article(AllKeys \ {"socialimage"}, Seen1, "u0", 120,
            [k \in 1..(n + 1) |-> IF k <= n THEN SentLawsuit ELSE SentShares],
            <<Org(AcmeCorp)>>, sentiment)

SweepArticles ==
    {SweepArticle(n, t) : n \in 0..MaxRisky,
                          t \in {Tone(neg) : neg \in 0..Scale} \cup {ToneNoNegative}}

BatchesOf(S) == UNION {[1..n -> S] : n \in 0..MaxBatch}

OkResponse(batch) ==
    [net |-> "ok", status |-> 200, body |-> "articles", articles |-> batch]

\* The GET fails, or succeeds with something else than a list of articles.
OtherResponses ==
    {[net |-> e, status |-> 0, body |-> "empty", articles |-> <<>>] :
        e \in {"ConnectionError", "Timeout"}}
    \cup {[net |-> "ok", status |-> 404, body |-> "invalid", articles |-> <<>>],
          [net |-> "ok", status |-> 503, body |-> "empty", articles |-> <<>>]}
    \cup {[net |-> "ok", status |-> 503, body |-> "articles", articles |-> <<ArtAcmeBeta>>]}
    \cup {[net |-> "ok", status |-> 200, body |-> b, articles |-> <<>>] :
        b \in {"invalid", "empty", "no_articles", "array"}}

Responses ==
    {OkResponse(b) : b \in BatchesOf(Catalogue)}
    \cup {OkResponse(<<a>>) : a \in SweepArticles}
    \cup OtherResponses

SessionResponses ==
    {OkResponse(b) : b \in BatchesOf(SessionCatalogue)} \cup OtherResponses

(***************************************************************************)
(* The session.                                                            *)
(***************************************************************************)
VARIABLES
    results_df,  \* st.session_state.results_df: a sequence of rows
    response,    \* what the network did with the GET of the last run (net, status, body)
    requests,    \* HTTP requests the last run issued
    errors,      \* st.error calls of the last run
    articles,    \* the list fetch_gdelt_data returned in the last run
    scored,      \* positions in articles given to sentiment_analyzer
    results,     \* the list `results` of the last run
    raised,      \* the exception that ended the last run, or "none"
    completed,   \* articles of the last run that reached the store
    prev_rows    \* rows results_df had when the last run began

vars == <<results_df, response, requests, errors, articles, scored, results,
          raised, completed, prev_rows>>

NoResponse == [net |-> "none", status |-> 0, body |-> "empty"]

\* A new session: results_df = pd.DataFrame(), no click yet.
Init ==
    /\ results_df = <<>>
    /\ response = NoResponse
    /\ requests = 0
    /\ errors = <<>>
    /\ articles = <<>>
    /\ scored = <<>>
    /\ results = <<>>
    /\ raised = "none"
    /\ completed = <<>>
    /\ prev_rows = 0

\* A click on "Analyze News": the fetch, the comprehension and the store.
\* An exception that leaves the fetch or the comprehension ends the run
\* before results_df is assigned.
AnalyzeNews(resp, rev) ==
    LET f == fetch_gdelt_data(resp)
        c == Comprehension(f.ret, rev)
        ok == f.raised = "none" /\ c.raised = "none"
    IN  /\ response' = [net |-> resp.net, status |-> resp.status, body |-> resp.body]
        /\ requests' = f.requests
        /\ errors' = f.errors
        /\ articles' = f.ret
        /\ scored' = c.scored
        /\ results' = IF ok THEN c.results ELSE <<>>
        /\ raised' = IF f.raised # "none" THEN f.raised ELSE c.raised
        /\ prev_rows' = Len(results_df)
        /\ IF ok
           THEN /\ completed' = f.ret
                /\ results_df' \in StoreResults(results_df, c.results)
           ELSE UNCHANGED <<completed, results_df>>

Next == \E resp \in SessionResponses, rev \in BOOLEAN : AnalyzeNews(resp, rev)

Spec == Init /\ [][Next]_vars

\* The first run of a session, over the full catalogue.
FirstRun ==
    /\ response = NoResponse
    /\ \E resp \in Responses, rev \in BOOLEAN : AnalyzeNews(resp, rev)

SpecRun == Init /\ [][FirstRun]_vars

(***************************************************************************)
(* Properties.                                                             *)
(***************************************************************************)
Rows == Range(results_df)

Records == Range(results)

\* The last click ran to the store.
RunCompleted == response # NoResponse /\ raised = "none"

HasKeyword(sent) ==
    \E k \in 1..Len(KEYWORDS) : Contains(KEYWORDS[k], Lower(sent))

RiskyCount(article) == Cardinality({k \in 1..Len(article.sents) : HasKeyword(article.sents[k])})

\* The classifier's negativity for the article, 0 without the label.
Negativity(article) ==
    IF \E k \in 1..Len(article.sentiment) : article.sentiment[k].label = "Negative"
    THEN (CHOOSE t \in Range(article.sentiment) : t.label = "Negative").score
    ELSE 0

\* C1: the leaderboard has one row per company of the run's records, and
\* the Risk Score of a row is the maximum Risk Score over the records of
\* the run that name its company.
C1_OneRowPerCompanyWithMaxScore ==
    RunCompleted =>
        /\ \A i, j \in 1..Len(results_df) :
               i # j => results_df[i].Company # results_df[j].Company
        /\ {row.Company : row \in Rows} = {rec.Company : rec \in Records}
        /\ \A row \in Rows :
               LET named == {rec \in Records : rec.Company = row.Company}
               IN  /\ \E rec \in named : rec.Risk_Score = row.Risk_Score
                   /\ \A rec \in named : rec.Risk_Score <= row.Risk_Score

\* Two records of one run name the same company with different scores.
C1_Witness ==
    /\ RunCompleted
    /\ results_df # <<>>
    /\ \E a, b \in Records : a.Company = b.Company /\ a.Risk_Score < b.Risk_Score

\* C2: a row is, field for field, one record of the run: the first record
\* in encounter order among those of its company with the maximum score.
C2_RowIsFirstMaxRecord ==
    RunCompleted =>
        \A row \in Rows :
            \E k \in 1..Len(results) :
                /\ results[k] = row
                /\ \A j \in 1..Len(results) :
                       results[j].Company = row.Company =>
                           /\ results[j].Risk_Score <= row.Risk_Score
                           /\ (j < k => results[j].Risk_Score < row.Risk_Score)

\* Two records of one company share the maximum and differ in their source;
\* the row carries the source, date and mentions of the earlier one.
C2_Witness ==
    /\ RunCompleted
    /\ \E j, k \in 1..Len(results) :
           /\ j < k
           /\ results[j].Company = results[k].Company
           /\ results[j].Risk_Score = results[k].Risk_Score
           /\ results[j].Source # results[k].Source
           /\ results[j].Date # results[k].Date
           /\ results[j].Key_Mentions # results[k].Key_Mentions
           /\ results[j] \in Rows

\* C3: an article without a sentence whose lowercased text contains a
\* keyword is not given to the sentiment classifier and no record or row
\* of the run has it as its source, whatever organizations it names.
C3_NoRiskySentenceNoRecord ==
    \A i \in 1..Len(articles) :
        RiskyCount(articles[i]) = 0 =>
            /\ i \notin Range(scored)
            /\ \A rec \in Records \cup Rows :
                   "url" \in articles[i].keys => rec.Source # articles[i].url

\* An article without risky sentence, long enough, with an organization
\* that passes the filter and a negative tone, next to an article that
\* gave the leaderboard its rows.
C3_Witness ==
    /\ RunCompleted
    /\ results_df # <<>>
    /\ \E i \in 1..Len(articles) :
           /\ RiskyCount(articles[i]) = 0
           /\ ContentLen(articles[i]) > ContentMin
           /\ "url" \in articles[i].keys
           /\ Negativity(articles[i]) > 1
           /\ \E e \in Range(articles[i].ents) :
                  e.label = "ORG" /\ e.text \in {row.Company : row \in Rows}

\* C4: with at least one risky sentence and a negativity in [0, 1] the risk
\* score analyze_article returns is in [0, 1], and so is every Risk Score of
\* the leaderboard.
C4_RiskScoreInUnitInterval ==
    /\ \A i \in Range(scored) :
           (Negativity(articles[i]) \in 0..Scale /\ RiskyCount(articles[i]) >= 1) =>
               analyze_article(articles[i], FALSE).risk \in 0..(Scale * Scale)
    /\ \A rec \in Records \cup Rows : rec.Risk_Score \in 0..(Scale * Scale)

\* More than five risky sentences and negativity 1.0: the row has score 1.0.
C4_Witness ==
    /\ RunCompleted
    /\ \E i \in Range(scored) :
           /\ RiskyCount(articles[i]) > KeywordDen
           /\ Negativity(articles[i]) = Scale
           /\ \E row \in Rows :
                  row.Source = articles[i].url /\ row.Risk_Score = Scale * Scale

\* C5: with n >= 1 risky sentences and negativity s the risk score is
\* 0.6 * s + 0.4 * min(n / 5, 1); n = 2 and s = 0.8 give 0.64. Stated
\* in 1/(Scale * Scale), multiplied by 5 to keep n / 5 exact.
C5_RiskScoreIsBlend ==
    \A i \in Range(scored) :
        LET n == RiskyCount(articles[i])
            s == Negativity(articles[i])
            risk == analyze_article(articles[i], FALSE).risk
        IN  /\ n >= 1
            /\ 5 * risk = (6 * s * 5) + (4 * (IF n < 5 THEN n * Scale ELSE 5 * Scale))
            /\ (n = 2 /\ s = 8) => risk = 64
            /\ \A rec \in Records \cup Rows :
                   rec.Source = articles[i].url => rec.Risk_Score = risk

\* An article with two risky sentences and negativity 0.8 gave a row 0.64.
C5_Witness ==
    /\ RunCompleted
    /\ \E i \in Range(scored) :
           /\ RiskyCount(articles[i]) = 2
           /\ Negativity(articles[i]) = 8
           /\ \E row \in Rows : row.Source = articles[i].url /\ row.Risk_Score = 64

\* C6: when the GET ends with an error status, with a body that is not
\* JSON, or with a connection failure or timeout, the run issues that one
\* request, no exception leaves fetch_gdelt_data, it returns the empty
\* list, and the one diagnostic reported is the one of the failure's class.
C6_OneDiagnosticPerFailureClass ==
    LET quiet == requests = 1 /\ raised = "none" /\ articles = <<>>
    IN  /\ (response.net = "ok" /\ response.status >= 400) =>
               quiet /\ errors = <<"HTTP error">>
        /\ (response.net = "ok" /\ response.status = 200
                /\ response.body \in {"invalid", "empty"}) =>
               quiet /\ errors = <<"failed to decode JSON">>
        /\ response.net \in {"ConnectionError", "Timeout"} =>
               quiet /\ errors = <<"network connection error">>

\* An HTTP 503 was reported as the HTTP error.
C6_Witness ==
    /\ response.net = "ok"
    /\ response.status = 503
    /\ errors = <<"HTTP error">>
    /\ articles = <<>>

\* The frame before sort_values: one row per company, in key order.
BeforeSort == Loc(results, GroupIdxMax(results))

PositionIn(df, row) == CHOOSE k \in 1..Len(df) : df[k] = row

\* C7: the leaderboard is in descending order of Risk Score, and rows of
\* equal Risk Score are in the order they had before the sort.
C7_DescendingAndStable ==
    RunCompleted =>
        \A a, b \in 1..Len(results_df) :
            a < b =>
                /\ results_df[a].Risk_Score >= results_df[b].Risk_Score
                /\ results_df[a].Risk_Score = results_df[b].Risk_Score =>
                       PositionIn(BeforeSort, results_df[a])
                           < PositionIn(BeforeSort, results_df[b])

\* An article the comprehension cannot make a record of.
Malformed(article) == "url" \notin article.keys \/ "seendate" \notin article.keys

\* C8: when a batch holds a malformed article next to well-formed ones, the
\* run completes and every company a well-formed article gives a record for
\* has a row in the leaderboard.
C8_MalformedArticleSkipped ==
    (/\ response # NoResponse
     /\ \E i \in 1..Len(articles) : Malformed(articles[i])
     /\ \E i \in 1..Len(articles) :
            ~Malformed(articles[i])
                /\ Comprehension(<<articles[i]>>, FALSE).results # <<>>)
    => /\ raised = "none"
       /\ \A i \in 1..Len(articles) :
              ~Malformed(articles[i]) =>
                  \A rec \in Range(Comprehension(<<articles[i]>>, FALSE).results) :
                      rec.Company \in {row.Company : row \in Rows}

\* C9: the leaderboard is made of the batch of the last run that completed:
\* every row is a record of that batch and every company of its records has
\* a row; and a run whose batch is empty or gives no record completes and
\* leaves the leaderboard empty.
C9_LeaderboardOfLastCompletedRun ==
    LET of_completed == Range(Comprehension(completed, FALSE).results)
        of_last == Comprehension(articles, FALSE)
    IN  /\ Rows \subseteq of_completed
        /\ {row.Company : row \in Rows} = {rec.Company : rec \in of_completed}
        /\ Len(results_df) = Cardinality({rec.Company : rec \in of_completed})
        /\ (/\ response.net \notin {"none"}
            /\ fetch_gdelt_data([net |-> response.net, status |-> response.status,
                                 body |-> response.body, articles |-> articles]).raised
                   = "none"
            /\ of_last.raised = "none"
            /\ of_last.results = <<>>)
           => (raised = "none" /\ results_df = <<>>)

\* A run over a batch that is not empty and gives no record emptied a
\* leaderboard that had rows.
C9_Witness ==
    /\ prev_rows > 0
    /\ RunCompleted
    /\ articles # <<>>
    /\ results_df = <<>>

\* C10: every Company of the leaderboard is an ORG entity of an article of
\* the batch, longer than 3 characters, with a space and without "LLC"; an
\* article none of whose organizations is such a name is the source of no
\* row, whatever its risk score.
GoodName(name) ==
    /\ Len(name) >= 4
    /\ \E k \in 1..Len(name) : name[k] = " "
    /\ ~\E k \in 1..(Len(name) - 2) :
           name[k] = "L" /\ name[k + 1] = "L" /\ name[k + 2] = "C"

OrgNames(article) == {e.text : e \in {x \in Range(article.ents) : x.label = "ORG"}}

C10_OnlyFilteredOrganizations ==
    /\ \A row \in Rows :
           /\ GoodName(row.Company)
           /\ \E i \in 1..Len(completed) : row.Company \in OrgNames(completed[i])
    /\ \A i \in 1..Len(articles) :
           (\A name \in OrgNames(articles[i]) : ~GoodName(name)) =>
               \A rec \in Records \cup Rows :
                   "url" \in articles[i].keys => rec.Source # articles[i].url

\* An article with the highest risk score whose organizations all fail the
\* filter, next to an article that gave the leaderboard its rows.
C10_Witness ==
    /\ RunCompleted
    /\ results_df # <<>>
    /\ \E i \in 1..Len(articles) :
           /\ OrgNames(articles[i]) # {}
           /\ \A name \in OrgNames(articles[i]) : ~GoodName(name)
           /\ i \in Range(scored)
           /\ analyze_article(articles[i], FALSE).risk = Scale * Scale

====
